---- MODULE Spec2Model ----
(***************************************************************************)
(* A model of magpie-twitter-bot: the local OAuth2 redirect catcher        *)
(* (src/oauth2_callback.rs), the liked-tweets page stream and the page     *)
(* enrichment with its username cache (src/bot.rs), and the bounded        *)
(* download phase of run (src/bin/magpie.rs, src/download.rs).             *)
(*                                                                         *)
(* Each component has its own specification over the shared variables:     *)
(*   SpecCallback  catch_callback and the axum handlers                    *)
(*   SpecWalk      Bot::fetch_liked_tweets, polled by a stream consumer    *)
(*   SpecEnrich    concurrent Bot::process_page tasks of a JoinSet         *)
(*   SpecPage      one Bot::process_page call over the pages it can get    *)
(*   SpecDownload  stream::iter(image_refs)...buffer_unordered(n).collect  *)
(*   SpecFilename  ImageRef::filename                                      *)
(* and SpecRun is run of bin/magpie.rs, from the login to the downloads.   *)
(***************************************************************************)
EXTENDS Naturals, Integers, Sequences, FiniteSets, TLC

VARIABLES
    \* ---- oauth2_callback.rs ----
    cc,                 \* position of catch_callback
    srv,                \* the hyper server: idle, listening, draining, stopped
    shutdown,           \* State.shutdown: TRUE while it holds Some(tx)
    code_grant_result,  \* State.code_grant_result: NoneVal or Some(result)
    reqs,               \* the HTTP requests: route, query, handler position
    ret,                \* what catch_callback returned (NoneVal before)
    sends,              \* how many times shutdown.send(()) ran
    first_stored        \* what the first handler to reach line 183 stored

VARIABLES
    \* ---- bot.rs: fetch_liked_tweets ----
    feed,               \* the remote liked-tweets feed: its pages in cursor order
    unfold_state,       \* the State of stream::unfold: Unintialised, Page, Errored
    current_page,       \* the index of the page held by State::Page (0: none)
    stream_pc,          \* the stream: idle (between items), awaiting, ended
    yielded,            \* the items the stream has yielded, in order
    inflight,           \* the network requests sent and not yet answered
    netlog              \* every request sent and response received, in order

VARIABLES
    \* ---- bot.rs: process_page ----
    pages,              \* the page each spawned task enriches
    task,               \* each process_page task: position and current tweet
    username_cache,     \* Bot.username_cache: author id -> username (or NoName)
    lookups,            \* get_user requests sent, per task and author id
    guards              \* the RwLock guard each task holds: none, read, write

VARIABLES
    \* ---- bin/magpie.rs: the download phase ----
    image_refs,         \* how many image references reach the download phase
    download_n,         \* args.download_n
    dl,                 \* each reference's download: queued .. finished
    results,            \* the collected Vec<Result<()>>, in completion order
    rc,                 \* the download block: running, Ok, Err
    files               \* the output directory: what each destination path holds

VARIABLES
    \* ---- bin/magpie.rs: run ----
    run_pc,             \* position of run: login .. done, failed, panicked
    csrf,               \* the CsrfToken login_start returned (Absent before)
    params,             \* what the awaited callback delivered (NoneVal before)
    token_requests,     \* how many times login_end requested a token
    out_dir,            \* args.out_dir: absent, created, failed
    joined              \* the tasks join_next has returned

VARIABLES
    \* ---- bot.rs: ImageRef::filename ----
    image_ref,          \* the ImageRef whose filename is asked for
    file_name           \* what filename() returned (empty before)

cbVars == <<cc, srv, shutdown, code_grant_result, reqs, ret, sends, first_stored>>

walkVars == <<feed, unfold_state, current_page, stream_pc, yielded, inflight, netlog>>

enrichVars == <<pages, task, username_cache, lookups, guards>>

dlVars == <<image_refs, download_n, dl, results, rc, files>>

runVars == <<run_pc, csrf, params, token_requests, out_dir, joined>>

fnVars == <<image_ref, file_name>>

vars == <<cbVars, walkVars, enrichVars, dlVars, runVars, fnVars>>

-----------------------------------------------------------------------------
(* Bounds *)

\* HTTP requests that reach the listener during one catch_callback call
MaxRequests == 2

\* pages of the liked-tweets feed
MaxPages == 3

\* concurrent process_page tasks in the JoinSet
MaxTasks == 2

\* tweets of one page
MaxTweets == 2

\* image references handed to the download phase
MaxRefs == 4

\* the largest --download-n tried
MaxDownloadN == 2

\* The longest username of an ImageRef whose filename is computed.
MaxNameLen == 2

\* image references downloaded into a directory that is not fresh
MaxFiles == 2

-----------------------------------------------------------------------------
(* Values *)

Absent == "<absent>"

NoneVal == [tag |-> "None"]

\* Ok(CodeGrantResponse { code, state })
OkResponse(code, state) == [tag |-> "Ok", code |-> code, state |-> state]

\* Err(BasicErrorResponse { error, error_description, error_uri })
ErrResponse(error, description, uri) ==
    [tag |-> "Err", error |-> error, error_description |-> description,
     error_uri |-> uri]

\* A raw query string as serde_urlencoded reads it: its key=value pairs in
\* the order of the string, a key as often as the string has it; present =
\* FALSE is a request line without "?" (RawQuery(None)).
Query(pairs) == [present |-> TRUE, pairs |-> pairs]

NoQuery == [present |-> FALSE, pairs |-> << >>]

\* The query strings the browser (or anything else on localhost) sends.
Queries ==
    { NoQuery,
      Query(<< >>),                                                \* "?"
      Query(<< <<"code", "c1">> >>),
      Query(<< <<"state", "s1">> >>),
      Query(<< <<"error_description", "denied by user">> >>),
      Query(<< <<"code", "c1">>, <<"state", "s1">> >>),
      Query(<< <<"state", "s2">>, <<"code", "c2">> >>),
      Query(<< <<"code", "c1">>, <<"state", "s1">>, <<"error", "access_denied">> >>),
      Query(<< <<"error", "access_denied">>, <<"state", "abc">> >>),
      Query(<< <<"error", "access_denied">>,
               <<"error_description", "denied by user">> >>),
      Query(<< <<"error", "server_error">>, <<"error_uri", "http://e">> >>),
      Query(<< <<"error", "access_denied">>,
               <<"error_description", "denied by user">>,
               <<"error_uri", "http://e">> >>),
      \* a key more than once
      Query(<< <<"code", "c1">>, <<"state", "s1">>, <<"state", "s2">>,
               <<"error", "access_denied">> >>),
      Query(<< <<"code", "c1">>, <<"code", "c2">>, <<"state", "s1">> >>),
      Query(<< <<"code", "c1">>, <<"state", "s1">>,
               <<"error", "access_denied">>, <<"error", "server_error">> >>),
      Query(<< <<"error", "access_denied">>, <<"error", "access_denied">> >>),
      Query(<< <<"error", "access_denied">>,
               <<"error_description", "denied by user">>,
               <<"error_description", "denied by user">> >>) }

Routes == {"/", "/health", "/oauth2/callback"}

RequestIds == 1..MaxRequests

-----------------------------------------------------------------------------
(* oauth2_callback.rs: decoding *)

\* No variant of CodeGrantResultCustom matches the query.
DecodeFailure == [tag |-> "DecodeFailure"]

\* How often the query has the key.
Count(q, key) ==
    Cardinality({k \in 1..Len(q.pairs) : q.pairs[k][1] = key})

\* The value of a key the query has once, Absent for a key it has not.
Value(q, key) ==
    IF Count(q, key) = 0
    THEN Absent
    ELSE q.pairs[CHOOSE k \in 1..Len(q.pairs) : q.pairs[k][1] = key][2]

\* #[derive(Deserialize)] struct CodeGrantResponse { code, state }: both
\* fields are required, a field given twice is an error (duplicate field),
\* and the other keys are ignored, however often they occur.
CodeGrantResponse(q) ==
    IF Count(q, "code") = 1 /\ Count(q, "state") = 1
    THEN OkResponse(Value(q, "code"), Value(q, "state"))
    ELSE DecodeFailure

\* BasicErrorResponse (oauth2's StandardErrorResponse, a derived
\* Deserialize): error is required and takes any text, error_description and
\* error_uri are optional (None by default), a field given twice is an
\* error, and the other keys are ignored.
BasicErrorResponse(q) ==
    IF /\ Count(q, "error") = 1
       /\ Count(q, "error_description") <= 1
       /\ Count(q, "error_uri") <= 1
    THEN ErrResponse(Value(q, "error"), Value(q, "error_description"),
                     Value(q, "error_uri"))
    ELSE DecodeFailure

\* Mutant of CodeGrantResultCustom: the Err variant is tried first.
CodeGrantResultCustom_ErrFirst(q) ==
    IF BasicErrorResponse(q) # DecodeFailure
    THEN BasicErrorResponse(q)
    ELSE CodeGrantResponse(q)

\* #[serde(untagged)] enum CodeGrantResultCustom: the variants are tried in
\* declaration order, Ok(CodeGrantResponse) first, then
\* Err(BasicErrorResponse), and the first that deserializes is the result;
\* DecodeFailure when neither does.
CodeGrantResultCustom(q) ==
    IF CodeGrantResponse(q) # DecodeFailure
    THEN CodeGrantResponse(q)
    ELSE BasicErrorResponse(q)

\* The neither-shape queries of the callback route (absent, empty, or
\* matching neither variant).
Malformed(q) == ~q.present \/ CodeGrantResultCustom(q) = DecodeFailure

-----------------------------------------------------------------------------
(* oauth2_callback.rs: catch_callback and the handlers *)

\* Headings { title, subheader }; the subheader is kept as the parts that
\* format! joins.
Headings(title, subheader) == [title |-> title, subheader |-> subheader]

\* No acknowledgment page was sent.
NoHeadings == Headings("-", << >>)

\* const INVALID_RESPONSE_HEADINGS
INVALID_RESPONSE_HEADINGS ==
    Headings("Login failed.", <<"Received invalid OAuth2 response.">>)

\* ToHeadings for Result, CodeGrantResponse and BasicErrorResponse.
to_headings(result) ==
    IF result.tag = "Ok"
    THEN Headings("You are now logged in.", <<"Please close the window.">>)
    ELSE LET error == result.error
             description == result.error_description
             uri == result.error_uri
         IN  Headings("Login failed.",
                 IF description = Absent /\ uri = Absent THEN <<error>>
                 ELSE IF uri = Absent THEN <<error, ": ", description>>
                 ELSE IF description = Absent THEN <<error, " (", uri, ")">>
                 ELSE <<error, ": ", description, " (", uri, ")">>)

\* oauth2_callback, lines 159-163: the headings of the acknowledgment page.
PageHeadings(result) ==
    IF result # NoneVal THEN to_headings(result) ELSE INVALID_RESPONSE_HEADINGS

IdleRequest ==
    [pc |-> "idle", route |-> "/", query |-> NoQuery, parsed |-> NoneVal,
     html |-> NoHeadings]

InitCallback ==
    /\ cc = "start"
    /\ srv = "idle"
    /\ shutdown = TRUE
    /\ code_grant_result = NoneVal
    /\ reqs = [r \in RequestIds |-> IdleRequest]
    /\ ret = NoneVal
    /\ sends = 0
    /\ first_stored = NoneVal

\* axum::Server::bind(&addr): panics when the address cannot be bound.
Bind ==
    /\ cc = "start"
    /\ \E bound \in BOOLEAN :
          IF bound
          THEN cc' = "serving" /\ srv' = "listening"
          ELSE cc' = "bind_panic" /\ srv' = srv
    /\ UNCHANGED <<shutdown, code_grant_result, reqs, ret, sends, first_stored>>
    /\ UNCHANGED <<walkVars, enrichVars, dlVars, runVars, fnVars>>

\* The listener accepts a connection and routes its request.
Accept(r) ==
    /\ srv = "listening"
    /\ reqs[r].pc = "idle"
    /\ r > 1 => reqs[r - 1].pc # "idle"
    /\ \E route \in Routes, q \in Queries :
          /\ route # "/oauth2/callback" => q = NoQuery
          /\ reqs' = [reqs EXCEPT ![r] =
                        [pc |-> "accepted", route |-> route, query |-> q,
                         parsed |-> NoneVal, html |-> NoHeadings]]
    /\ UNCHANGED <<cc, srv, shutdown, code_grant_result, ret, sends, first_stored>>
    /\ UNCHANGED <<walkVars, enrichVars, dlVars, runVars, fnVars>>

\* root and health answer with a static text and touch no state.
RootOrHealth(r) ==
    /\ reqs[r].pc = "accepted"
    /\ reqs[r].route \in {"/", "/health"}
    /\ reqs' = [reqs EXCEPT ![r].pc = "responded"]
    /\ UNCHANGED <<cc, srv, shutdown, code_grant_result, ret, sends, first_stored>>
    /\ UNCHANGED <<walkVars, enrichVars, dlVars, runVars, fnVars>>

\* oauth2_callback, lines 152-158: the query is decoded, and the decoding is
\* unwrapped: a query matching neither variant panics the handler task.
ParseQuery(r) ==
    /\ reqs[r].pc = "accepted"
    /\ reqs[r].route = "/oauth2/callback"
    /\ LET q == reqs[r].query
       IN  IF ~q.present
           THEN reqs' = [reqs EXCEPT ![r].pc = "parsed", ![r].parsed = NoneVal]
           ELSE IF CodeGrantResultCustom(q) = DecodeFailure
                THEN reqs' = [reqs EXCEPT ![r].pc = "panicked"]
                ELSE reqs' = [reqs EXCEPT ![r].pc = "parsed",
                                          ![r].parsed = CodeGrantResultCustom(q)]
    /\ UNCHANGED <<cc, srv, shutdown, code_grant_result, ret, sends, first_stored>>
    /\ UNCHANGED <<walkVars, enrichVars, dlVars, runVars, fnVars>>

\* oauth2_callback, lines 182-187, under the state mutex: the result is
\* assigned whatever the cell holds, then the sender is taken and fired.
StoreResult(r) ==
    /\ code_grant_result' = reqs[r].parsed
    /\ IF shutdown
       THEN shutdown' = FALSE /\ sends' = sends + 1
       ELSE UNCHANGED <<shutdown, sends>>

StoreAndSignal(r) ==
    /\ reqs[r].pc = "parsed"
    /\ StoreResult(r)
    /\ first_stored' = IF shutdown THEN reqs[r].parsed ELSE first_stored
    /\ reqs' = [reqs EXCEPT ![r].pc = "stored"]
    /\ UNCHANGED <<cc, srv, ret>>
    /\ UNCHANGED <<walkVars, enrichVars, dlVars, runVars, fnVars>>

\* oauth2_callback, lines 159-181 and 188: the Html acknowledgment, built
\* from the headings of this request's result, is sent.
Respond(r) ==
    /\ reqs[r].pc = "stored"
    /\ reqs' = [reqs EXCEPT ![r].pc = "responded",
                            ![r].html = PageHeadings(reqs[r].parsed)]
    /\ UNCHANGED <<cc, srv, shutdown, code_grant_result, ret, sends, first_stored>>
    /\ UNCHANGED <<walkVars, enrichVars, dlVars, runVars, fnVars>>

\* with_graceful_shutdown: the server task sees rx resolved and stops
\* accepting; connections already accepted are served to their end.
ObserveShutdown ==
    /\ srv = "listening"
    /\ ~shutdown
    /\ srv' = "draining"
    /\ UNCHANGED <<cc, shutdown, code_grant_result, reqs, ret, sends, first_stored>>
    /\ UNCHANGED <<walkVars, enrichVars, dlVars, runVars, fnVars>>

\* The serve future resolves once every accepted connection is finished.
ServeEnd ==
    /\ srv = "draining"
    /\ cc = "serving"
    /\ \A r \in RequestIds : reqs[r].pc \in {"idle", "responded", "panicked"}
    /\ srv' = "stopped"
    /\ cc' = "joined"
    /\ UNCHANGED <<shutdown, code_grant_result, reqs, ret, sends, first_stored>>
    /\ UNCHANGED <<walkVars, enrichVars, dlVars, runVars, fnVars>>

\* catch_callback, lines 130-135: take() the result and expect it to be set.
TakeResult ==
    /\ cc = "joined"
    /\ IF code_grant_result = NoneVal
       THEN cc' = "expect_panic" /\ ret' = ret
       ELSE cc' = "returned" /\ ret' = code_grant_result
    /\ code_grant_result' = NoneVal
    /\ UNCHANGED <<srv, shutdown, reqs, sends, first_stored>>
    /\ UNCHANGED <<walkVars, enrichVars, dlVars, runVars, fnVars>>

-----------------------------------------------------------------------------
(* bot.rs: the liked-tweets page stream *)

\* A feed is a finite cursor chain: page i carries a next_token exactly when
\* page i + 1 exists. data = FALSE is a page whose data is None.
Feeds ==
    UNION { [1..n -> [data : BOOLEAN]] : n \in 1..MaxPages }

OkPage(p) == [tag |-> "Ok", page |-> p, error |-> "-"]

ErrItem(error) == [tag |-> "Err", page |-> 0, error |-> error]

\* What a request asks for: 0 is get_users_me, p >= 1 is liked-tweets page p.
UsersMe == 0

Request(what) == [ev |-> "request", what |-> what, status |-> "-"]

Response(what, status) == [ev |-> "response", what |-> what, status |-> status]

\* Mutant of NextToken: a page without data is taken for the end of the feed.
NextToken_StopsAtEmpty(p) == p < Len(feed) /\ p >= 1 /\ feed[p].data

\* page.meta().and_then(|m| m.next_token()) of page p of the feed
NextToken(p) == p < Len(feed)

\* The network as the walker sees it: what is in flight, and the log.
Net == [inflight |-> inflight, netlog |-> netlog]

\* Mutant of Send: the request is sent together with a speculative request
\* for the page after it.
Send_Prefetch(net, what) ==
    [inflight |-> net.inflight \cup {what, what + 1},
     netlog |-> net.netlog \o <<Request(what), Request(what + 1)>>]

\* One request leaves: .send() of a request builder.
Send(net, what) ==
    [inflight |-> net.inflight \cup {what},
     netlog |-> Append(net.netlog, Request(what))]

\* Its answer arrives: .await of the send.
Receive(net, what, status) ==
    [inflight |-> net.inflight \ {what},
     netlog |-> Append(net.netlog, Response(what, status))]

SetNet(net) == inflight' = net.inflight /\ netlog' = net.netlog

\* Mutant of NextState: an error leaves the walker on its page, to try again.
NextState_Retry(item) == "Page"

\* Lines 124-127: the next State of the unfold, from the item it yields.
NextState(item) == IF item.tag = "Ok" THEN "Page" ELSE "Errored"

\* Lines 122-129: the unfold yields (next_page, next_state).
Yield(item) ==
    /\ yielded' = Append(yielded, item)
    /\ unfold_state' = NextState(item)
    /\ current_page' = IF NextState(item) = "Page" /\ item.tag = "Ok"
                       THEN item.page ELSE current_page
    /\ stream_pc' = "idle"

InitWalk ==
    /\ feed \in Feeds
    /\ unfold_state = "Unintialised"
    /\ current_page = 0
    /\ stream_pc = "idle"
    /\ yielded = << >>
    /\ inflight = {}
    /\ netlog = << >>

\* State::Unintialised: fetch_liked_tweets_first starts with get_users_me.
PollUnintialised ==
    /\ stream_pc = "idle"
    /\ unfold_state = "Unintialised"
    /\ SetNet(Send(Net, UsersMe))
    /\ stream_pc' = "await_me"
    /\ UNCHANGED <<feed, unfold_state, current_page, yielded>>
    /\ UNCHANGED <<cbVars, enrichVars, dlVars, runVars, fnVars>>

\* Lines 83-89: the answer to get_users_me; then lines 90-104 send the
\* request for the first page.
UsersMeResponse ==
    /\ stream_pc = "await_me"
    /\ UsersMe \in inflight
    /\ \E status \in {"ok", "error", "empty"} :
          IF status = "ok"
          THEN /\ SetNet(Send(Receive(Net, UsersMe, status), 1))
               /\ stream_pc' = "await_page"
               /\ UNCHANGED <<unfold_state, current_page, yielded>>
          ELSE /\ SetNet(Receive(Net, UsersMe, status))
               /\ Yield(ErrItem(IF status = "error" THEN "TwitterClient"
                                                    ELSE "TwitterApiInvariant"))
    /\ UNCHANGED feed
    /\ UNCHANGED <<cbVars, enrichVars, dlVars, runVars, fnVars>>

\* State::Page(current_page): current_page.next_page() sends a request when
\* the page carries a next_token, and is Ok(None), the end of the stream,
\* when it does not.
PollPage ==
    /\ stream_pc = "idle"
    /\ unfold_state = "Page"
    /\ IF NextToken(current_page)
       THEN /\ SetNet(Send(Net, current_page + 1))
            /\ stream_pc' = "await_page"
       ELSE /\ stream_pc' = "ended"
            /\ UNCHANGED <<inflight, netlog>>
    /\ UNCHANGED <<feed, unfold_state, current_page, yielded>>
    /\ UNCHANGED <<cbVars, enrichVars, dlVars, runVars, fnVars>>

\* The answer to a liked-tweets page request (the first page or a next page).
PageResponse ==
    /\ stream_pc = "await_page"
    /\ \E p \in 1..Len(feed), status \in {"ok", "error"} :
          /\ p \in inflight
          /\ p = current_page + 1
          /\ SetNet(Receive(Net, p, status))
          /\ Yield(IF status = "ok" THEN OkPage(p) ELSE ErrItem("TwitterClient"))
    /\ UNCHANGED feed
    /\ UNCHANGED <<cbVars, enrichVars, dlVars, runVars, fnVars>>

\* State::Errored => return None.
PollErrored ==
    /\ stream_pc = "idle"
    /\ unfold_state = "Errored"
    /\ stream_pc' = "ended"
    /\ UNCHANGED <<feed, unfold_state, current_page, yielded, inflight, netlog>>
    /\ UNCHANGED <<cbVars, enrichVars, dlVars, runVars, fnVars>>


\* The last item the stream yielded is an Err.
ErrYielded == Len(yielded) > 0 /\ yielded[Len(yielded)].tag = "Err"

-----------------------------------------------------------------------------
(* bot.rs: process_page and the username cache *)

TaskIds == 1..MaxTasks

Authors == {"a1", "a2"}

NoName == "<none>"

\* The remote user directory: the usernames get_user(author_id) can answer
\* with. A user can rename during a run, so that two lookups of one id are
\* answered differently.
UserNames(a) == IF a = "a1" THEN {"alice", "alicia"} ELSE {"bob", "rob"}

\* Media keys that attachments and the includes side-table can carry.
MediaKeys == {"k1", "k2"}

\* A media url: Url::path_segments() is None for a cannot-be-a-base url,
\* otherwise the segments of the path.
MediaUrl(key) == [cannot_be_a_base |-> FALSE, path |-> <<"media", key>>]

OpaqueUrl == [cannot_be_a_base |-> TRUE, path |-> << >>]

\* What the side-table holds under a media key: no entry, a Photo with its
\* url, a Photo without url, a Photo whose url has no path segments, a Video.
EntryKinds == {"none", "photo", "photo_no_url", "photo_bad_url", "video"}

\* The media object of the side-table for an entry kind.
Media(key, ek) ==
    [media_key |-> key,
     kind |-> IF ek = "video" THEN "Video" ELSE "Photo",
     has_url |-> ek \in {"photo", "photo_bad_url"},
     url |-> IF ek = "photo_bad_url" THEN OpaqueUrl ELSE MediaUrl(key)]

NoAttachments == [present |-> FALSE, has_keys |-> FALSE, media_keys |-> << >>]

KeysMissing == [present |-> TRUE, has_keys |-> FALSE, media_keys |-> << >>]

Attached(keys) == [present |-> TRUE, has_keys |-> TRUE, media_keys |-> keys]

\* A tweet of a page: author_id and created_at are optional in the response.
Tweet(id, author_id, created_at, attachments) ==
    [id |-> id, author_id |-> author_id, created_at |-> created_at,
     attachments |-> attachments]

\* A page of the feed as process_page reads it: data(), meta().next_token(),
\* includes(), includes.media.
Page(has_data, next_token, has_includes, has_media, media, tweets) ==
    [has_data |-> has_data, next_token |-> next_token,
     has_includes |-> has_includes, has_media |-> has_media,
     media |-> media, tweets |-> tweets]

EmptyTable == [k \in MediaKeys |-> "none"]

\* Pages with data whose tweets carry every field and no attachment.
Pages ==
    { Page(TRUE, FALSE, TRUE, TRUE, EmptyTable,
           [i \in 1..Len(authors) |-> Tweet(i, authors[i], "t1", NoAttachments)]) :
        authors \in UNION {[1..n -> Authors] : n \in 0..MaxTweets} }

NewTask == [pc |-> "read", i |-> 1, username |-> NoName,
            image_refs |-> << >>, error |-> "-"]

\* An order on the author sequences of pages: a longer sequence is above a
\* shorter one, and of two sequences of one length the one with "a1" at the
\* first place where they differ.
RECURSIVE AuthorsKey(_)
AuthorsKey(tweets) ==
    IF tweets = << >>
    THEN 0
    ELSE 3 * AuthorsKey(SubSeq(tweets, 1, Len(tweets) - 1))
            + (IF tweets[Len(tweets)].author_id = "a1" THEN 2 ELSE 1)

\* The tasks run the same code and the author ids are interchangeable: of
\* the page assignments that differ only in the numbering of the tasks or in
\* the naming of the authors, the one with the pages in descending order and
\* "a1" as the first author of the first page is taken.
InitEnrich ==
    /\ pages \in [TaskIds -> Pages]
    /\ \A t \in TaskIds :
          t > 1 => AuthorsKey(pages[t].tweets) <= AuthorsKey(pages[t - 1].tweets)
    /\ pages[1].tweets # << >> => pages[1].tweets[1].author_id = "a1"
    /\ task = [t \in TaskIds |-> NewTask]
    /\ username_cache = [a \in Authors |-> NoName]
    /\ lookups = [t \in TaskIds |-> [a \in Authors |-> 0]]
    /\ guards = [t \in TaskIds |-> "none"]

\* Lines 29-33: Some(v) is Ok(v), None is Err(TwitterApiInvariant(description)).
ok_or_invariant(present, description) ==
    IF present THEN "Ok" ELSE description

\* Lines 185-189: the TweetRef of a tweet once its username is known.
TweetRef(tweet, username) ==
    [created_at |-> tweet.created_at, username |-> username, id |-> tweet.id]

\* Lines 198-209, mutant of PhotoRef: a Photo without a usable url is passed
\* over.
PhotoRef_SkipFaulty(tweet_ref, media) ==
    IF media.has_url /\ ~media.url.cannot_be_a_base /\ Len(media.url.path) > 0
    THEN [ok |-> TRUE, error |-> "-",
          refs |-> << [tweet |-> tweet_ref,
                       internal_filename |-> media.url.path[Len(media.url.path)],
                       url |-> media.url] >>]
    ELSE [ok |-> TRUE, error |-> "-", refs |-> << >>]

\* Lines 198-209: the ImageRef of a Photo media, whose internal filename is the
\* last path segment of its url; a missing url or a url without path segments
\* is an invariant error.
PhotoRef(tweet_ref, media) ==
    IF ok_or_invariant(media.has_url, "url in media") # "Ok"
    THEN [ok |-> FALSE, error |-> "url in media", refs |-> << >>]
    ELSE IF ok_or_invariant(~media.url.cannot_be_a_base,
                            "media url has valid path segments") # "Ok"
    THEN [ok |-> FALSE, error |-> "media url has valid path segments", refs |-> << >>]
    ELSE IF ok_or_invariant(Len(media.url.path) > 0,
                            "media url has no path segments") # "Ok"
    THEN [ok |-> FALSE, error |-> "media url has no path segments", refs |-> << >>]
    ELSE [ok |-> TRUE, error |-> "-",
          refs |-> << [tweet |-> tweet_ref,
                       internal_filename |-> media.url.path[Len(media.url.path)],
                       url |-> media.url] >>]

\* Lines 197-198, mutant of IsPhoto: the media kind is not looked at.
IsPhoto_AnyKind(table, key) == table[key] # "none"

\* Lines 197-198: includes_media.get(&media_key) finds an entry and its kind is
\* MediaType::Photo.
IsPhoto(table, key) ==
    /\ table[key] # "none"
    /\ Media(key, table[key]).kind = "Photo"

\* Lines 192-211: the loop over the media keys of one tweet, from key j on,
\* with the ImageRefs pushed so far. The first invariant error ends it.
RECURSIVE MediaKeysLoop(_, _, _, _, _)
MediaKeysLoop(tweet_ref, keys, table, j, acc) ==
    IF j > Len(keys)
    THEN [ok |-> TRUE, error |-> "-", refs |-> acc]
    ELSE IF IsPhoto(table, keys[j])
    THEN LET r == PhotoRef(tweet_ref, Media(keys[j], table[keys[j]]))
         IN  IF r.ok
             THEN MediaKeysLoop(tweet_ref, keys, table, j + 1, acc \o r.refs)
             ELSE r
    ELSE MediaKeysLoop(tweet_ref, keys, table, j + 1, acc)

\* Lines 185-213: the rest of the loop body for one tweet, after its username
\* is known: created_at, then the attachments.
TweetImageRefs(tweet, username, table) ==
    IF ok_or_invariant(tweet.created_at # Absent, "created_at in tweet") # "Ok"
    THEN [ok |-> FALSE, error |-> "created_at in tweet", refs |-> << >>]
    ELSE IF ~tweet.attachments.present
    THEN [ok |-> TRUE, error |-> "-", refs |-> << >>]
    ELSE IF ok_or_invariant(tweet.attachments.has_keys,
                            "media_keys in attachments") # "Ok"
    THEN [ok |-> FALSE, error |-> "media_keys in attachments", refs |-> << >>]
    ELSE MediaKeysLoop(TweetRef(tweet, username), tweet.attachments.media_keys,
                       table, 1, << >>)

\* The `?` of process_page: Err(error) is returned and the local image_refs
\* is dropped.
Fail(t, error) ==
    [task[t] EXCEPT !.pc = "failed", !.error = error, !.image_refs = << >>]

\* The for loop pushes this tweet's ImageRefs and moves to the next tweet, or
\* process_page returns Ok(image_refs); an invariant error returns Err.
NextTweet(t, username) ==
    LET page == pages[t]
        r == TweetImageRefs(page.tweets[task[t].i], username, page.media)
    IN  IF ~r.ok
        THEN Fail(t, r.error)
        ELSE [pc |-> IF task[t].i < Len(page.tweets) THEN "read" ELSE "done",
              i |-> IF task[t].i < Len(page.tweets) THEN task[t].i + 1 ELSE task[t].i,
              username |-> username,
              image_refs |-> task[t].image_refs \o r.refs,
              error |-> "-"]

\* Mutant of PageHead: a page without data is the end of the feed, whatever
\* its next token.
PageHead_NoAssert(page) ==
    IF ~page.has_data
    THEN "done"
    ELSE IF ~page.has_includes THEN "includes in response"
    ELSE IF ~page.has_media THEN "media in includes"
    ELSE IF Len(page.tweets) = 0 THEN "done" ELSE "loop"

\* Lines 136-155: the page before the loop. A page without data returns
\* Ok(empty) after assert_eq!(next_token, None), which panics when the page
\* carries a next token; includes and includes.media are required.
PageHead(page) ==
    IF ~page.has_data
    THEN IF page.next_token THEN "panicked" ELSE "done"
    ELSE IF ok_or_invariant(page.has_includes, "includes in response") # "Ok"
    THEN "includes in response"
    ELSE IF ok_or_invariant(page.has_media, "media in includes") # "Ok"
    THEN "media in includes"
    ELSE IF Len(page.tweets) = 0 THEN "done" ELSE "loop"

\* Lines 136-156 for a page whose loop body never runs: no data, a missing
\* includes or media table, or no tweets.
EmptyPage(t) ==
    /\ task[t].pc = "read"
    /\ PageHead(pages[t]) # "loop"
    /\ task' = [task EXCEPT ![t] =
                  IF PageHead(pages[t]) \in {"done", "panicked"}
                  THEN [@ EXCEPT !.pc = PageHead(pages[t])]
                  ELSE Fail(t, PageHead(pages[t]))]
    /\ UNCHANGED <<pages, username_cache, lookups, guards>>
    /\ UNCHANGED <<cbVars, walkVars, dlVars, runVars, fnVars>>

\* Mutant of CacheGet: the cache is never consulted.
CacheGet_AlwaysMiss(a) == NoName

\* Lines 159-161: guard.get(&author_id).cloned() under the read lock.
CacheGet(a) == username_cache[a]

\* username_cache.read().await resolves for task t: no task holds the write
\* guard.
CanRead(t) == \A u \in TaskIds : guards[u] # "write"

\* username_cache.write().await resolves for task t: no task holds a guard
\* (the lock is not reentrant: a guard of t itself blocks it too).
CanWrite(t) == \A u \in TaskIds : guards[u] = "none"

\* Mutant of GuardAtLookup: the read guard lives until the end of the match.
GuardAtLookup_Held == "read"

\* Line 161: drop(guard) runs before get_user is sent, so the task holds no
\* guard while it awaits the answer.
GuardAtLookup == "none"

\* Lines 158-164: author_id is required; the cache is read under the read
\* guard, which is dropped; on a hit the username is used, on a miss the
\* task goes on to send get_user(author_id), with the lock released and the
\* other tasks free to run in between.
ReadCache(t) ==
    /\ task[t].pc = "read"
    /\ PageHead(pages[t]) = "loop"
    /\ task[t].i <= Len(pages[t].tweets)
    /\ LET a == pages[t].tweets[task[t].i].author_id
       IN  IF ok_or_invariant(a # Absent, "author id in tweet") # "Ok"
           THEN /\ task' = [task EXCEPT ![t] = Fail(t, "author id in tweet")]
                /\ UNCHANGED <<lookups, guards>>
           ELSE IF CacheGet(a) # NoName
           THEN /\ CanRead(t)
                /\ task' = [task EXCEPT ![t] = NextTweet(t, CacheGet(a))]
                /\ guards' = [guards EXCEPT ![t] = "none"]
                /\ UNCHANGED lookups
           ELSE /\ CanRead(t)
                /\ task' = [task EXCEPT ![t].pc = "send"]
                /\ guards' = [guards EXCEPT ![t] = GuardAtLookup]
                /\ UNCHANGED lookups
    /\ UNCHANGED <<pages, username_cache>>
    /\ UNCHANGED <<cbVars, walkVars, dlVars, runVars, fnVars>>

\* Lines 165-170: get_user(author_id) is sent for the miss read before,
\* whatever the cache holds by now.
SendLookup(t) ==
    /\ task[t].pc = "send"
    /\ LET a == pages[t].tweets[task[t].i].author_id
       IN  lookups' = [lookups EXCEPT ![t][a] = @ + 1]
    /\ task' = [task EXCEPT ![t].pc = "lookup"]
    /\ UNCHANGED <<pages, username_cache, guards>>
    /\ UNCHANGED <<cbVars, walkVars, dlVars, runVars, fnVars>>

\* Mutant of CacheInsert: the map is rebuilt around the new entry.
CacheInsert_Replace(cache, a, username) ==
    [b \in Authors |-> IF b = a THEN username ELSE NoName]

\* Lines 174-175: guard.insert(author_id, username) under the write lock.
CacheInsert(cache, a, username) == [cache EXCEPT ![a] = username]

\* Lines 165-181: the answer to get_user arrives. An error, or an answer
\* without data, returns Err from process_page; a username is inserted into
\* the cache and read back under the write guard, which is taken after the
\* answer and dropped at line 180, and the rest of the loop body runs.
LookupResponse(t) ==
    /\ task[t].pc = "lookup"
    /\ LET a == pages[t].tweets[task[t].i].author_id
       IN  \E status \in {"ok", "error", "empty"} :
              IF status = "ok"
              THEN /\ CanWrite(t)
                   /\ \E username \in UserNames(a) :
                         username_cache' = CacheInsert(username_cache, a, username)
                   /\ task' = [task EXCEPT ![t] = NextTweet(t, username_cache'[a])]
              ELSE /\ task' = [task EXCEPT ![t] =
                                 Fail(t, IF status = "error" THEN "TwitterClient"
                                         ELSE "username in response")]
                   /\ UNCHANGED username_cache
    /\ guards' = [guards EXCEPT ![t] = "none"]
    /\ UNCHANGED <<pages, lookups>>
    /\ UNCHANGED <<cbVars, walkVars, dlVars, runVars, fnVars>>

\* The tweets a page of the provider can carry: author_id and created_at
\* present or not, and no attachments, attachments without media_keys, or
\* attachments with media keys in either order.
RichTweets ==
    { Tweet(0, a, c, att) :
        a \in {"a1", Absent}, c \in {"t1", Absent},
        att \in {NoAttachments, KeysMissing,
                 Attached(<<"k1", "k2">>), Attached(<<"k2", "k1">>)} }

\* The side-tables of includes.media.
MediaTables ==
    { [k \in MediaKeys |-> IF k = "k1" THEN e1 ELSE e2] :
        e1 \in EntryKinds, e2 \in {"none", "photo", "video"} }

\* The pages one process_page call can be given: a page without data, without
\* or with a next token; a page without includes; a page without
\* includes.media; a page with a side-table.
PageShapes == {"no_data", "no_data_next", "no_includes", "no_media", "full"}

RichPage(shape, table, tweets) ==
    IF shape \in {"no_data", "no_data_next"}
    THEN Page(FALSE, shape = "no_data_next", FALSE, FALSE, EmptyTable, << >>)
    ELSE IF shape = "no_includes"
    THEN Page(TRUE, FALSE, FALSE, FALSE, EmptyTable, tweets)
    ELSE IF shape = "no_media"
    THEN Page(TRUE, FALSE, TRUE, FALSE, EmptyTable, tweets)
    ELSE Page(TRUE, FALSE, TRUE, TRUE, table, tweets)

\* One process_page call on a page of up to MaxTweets tweets, with an empty
\* cache.
InitPage ==
    /\ \E shape \in PageShapes, table \in MediaTables, n \in 0..MaxTweets :
          \E ts \in [1..n -> RichTweets] :
             /\ shape # "full" => table = EmptyTable
             /\ shape \in {"no_data", "no_data_next"} => n = 0
             /\ pages = [t \in TaskIds |->
                           IF t = 1
                           THEN RichPage(shape, table,
                                         [i \in 1..n |-> [ts[i] EXCEPT !.id = i]])
                           ELSE Page(TRUE, FALSE, TRUE, TRUE, EmptyTable, << >>)]
    /\ task = [t \in TaskIds |-> IF t = 1 THEN NewTask
                                 ELSE [NewTask EXCEPT !.pc = "done"]]
    /\ username_cache = [a \in Authors |-> NoName]
    /\ lookups = [t \in TaskIds |-> [a \in Authors |-> 0]]
    /\ guards = [t \in TaskIds |-> "none"]

-----------------------------------------------------------------------------
(* bin/magpie.rs and download.rs: the download phase *)

RefIds == 1..image_refs

InFlight == {i \in RefIds : dl[i].pc \in {"started", "fetching"}}

Finished == {i \in RefIds : dl[i].pc = "finished"}

\* What the destination path holds before download::file runs: nothing, or
\* the file of an earlier run.
PriorFiles == {"absent", "old"}

\* Lines 134-135: the destination of a reference is out_dir joined with its
\* filename, which is built from the tweet and the internal filename:
\* references that agree on both have one destination path.
Path(ref) ==
    [tweet |-> ref.tweet, internal_filename |-> ref.internal_filename]

\* A reference not yet downloaded, with its destination path: no step of
\* download::file has run.
NewDownload(path) ==
    [pc |-> "queued", outcome |-> "-", steps |-> << >>, path |-> path]

\* The destination paths of the references.
Paths == {dl[i].path : i \in DOMAIN dl}

\* The download phase over a fresh output directory, for references with
\* pairwise different filenames.
InitDownload ==
    /\ image_refs \in 0..MaxRefs
    /\ download_n \in 1..MaxDownloadN
    /\ dl = [i \in RefIds |-> NewDownload(i)]
    /\ results = << >>
    /\ rc = "running"
    /\ files = [p \in RefIds |-> "absent"]

\* The download phase over an output directory that may hold files of an
\* earlier run, for references of which some may have the same filename.
InitFile ==
    /\ image_refs \in 1..MaxFiles
    /\ download_n \in 1..MaxDownloadN
    /\ dl \in [RefIds -> {NewDownload(path) : path \in RefIds}]
    /\ results = << >>
    /\ rc = "running"
    /\ files \in [Paths -> PriorFiles]

\* Mutant of HasCapacity: the limit is off by one.
HasCapacity_OffByOne == Cardinality(InFlight) <= download_n

\* buffer_unordered(args.download_n): a future is taken from the stream only
\* while fewer than download_n are in progress.
HasCapacity == Cardinality(InFlight) < download_n

\* The next reference of stream::iter(image_refs), in order, becomes a future
\* in progress.
StartDownload(i) ==
    /\ rc = "running"
    /\ dl[i].pc = "queued"
    /\ \A j \in RefIds : j < i => dl[j].pc # "queued"
    /\ HasCapacity
    /\ dl' = [dl EXCEPT ![i].pc = "started"]
    /\ UNCHANGED <<image_refs, download_n, results, rc, files>>
    /\ UNCHANGED <<cbVars, walkVars, enrichVars, runVars, fnVars>>

\* A download future completes: its Result<()> is pushed to the collected
\* Vec. Ok(()) carries nothing; an Err carries the context message of lines
\* 138-140, which names the url and path of its reference.
Complete(i, outcome, steps) ==
    /\ dl' = [dl EXCEPT ![i].pc = "finished", ![i].outcome = outcome,
                        ![i].steps = steps]
    /\ results' = Append(results, [outcome |-> outcome,
                                   context |-> IF outcome = "Ok" THEN 0 ELSE i])

\* download::file, line 14: File::create opens the path for writing,
\* creating the file or truncating the one that is there; then the GET is
\* sent. When it fails the path is left as it was and the function returns.
CreateFile(i) ==
    /\ rc = "running"
    /\ dl[i].pc = "started"
    /\ \E created \in BOOLEAN :
          IF created
          THEN /\ dl' = [dl EXCEPT ![i].pc = "fetching",
                                   ![i].steps = dl[i].steps \o <<"create", "fetch">>]
               /\ files' = [files EXCEPT ![dl[i].path] = "empty"]
               /\ UNCHANGED results
          ELSE /\ Complete(i, "Err(File)", Append(dl[i].steps, "create"))
               /\ UNCHANGED files
    /\ UNCHANGED <<image_refs, download_n, rc>>
    /\ UNCHANGED <<cbVars, walkVars, enrichVars, runVars, fnVars>>

\* download::file, lines 15-24: what the destination path can hold when the
\* function returns, given what it held when the answer came: "empty" after
\* File::create, or what another download of the same path left since then,
\* "written" (one whole body), "partial" (the start of one body) or "mixed"
\* (the start of one body followed by the rest of another). A failed fetch
\* returns with the handle dropped and nothing written or removed. write_all
\* writes through the handle of this call, from offset 0 and without
\* truncating: the whole body on Ok, and on Err(File) the bytes written until
\* the failure, which may be none. What the file held beyond the bytes
\* written stays: a whole body over a longer one leaves the tail of the
\* longer one, a part of a body over a longer content leaves the rest of
\* that content, and a part that reaches past the end of the content leaves
\* only that part.
FileAfter(outcome, content) ==
    CASE outcome = "Ok" ->
            IF content = "empty" THEN {"written"} ELSE {"written", "mixed"}
      [] outcome = "Err(Remote)" -> {content}
      [] outcome = "Err(File)" ->
            IF content = "empty" THEN {"empty", "partial"}
            ELSE {content, "partial", "mixed"}

\* download::file, lines 15-24: the body arrives or the request fails; the
\* bytes are written with write_all over what the path holds by then, and
\* the function returns.
FetchResponse(i) ==
    /\ rc = "running"
    /\ dl[i].pc = "fetching"
    /\ \E outcome \in {"Ok", "Err(Remote)", "Err(File)"} :
          /\ Complete(i, outcome,
                      IF outcome = "Err(Remote)" THEN dl[i].steps
                      ELSE Append(dl[i].steps, "write"))
          /\ \E content \in FileAfter(outcome, files[dl[i].path]) :
                files' = [files EXCEPT ![dl[i].path] = content]
    /\ UNCHANGED <<image_refs, download_n, rc>>
    /\ UNCHANGED <<cbVars, walkVars, enrichVars, runVars, fnVars>>

\* .collect().await: the stream ends when the iterator is exhausted and no
\* future is in progress.
StreamDone == \A i \in RefIds : dl[i].pc = "finished"

\* Line 148: results.into_iter().collect::<Result<_>>()?
CollectResult(rs) ==
    IF \E k \in 1..Len(rs) : rs[k].outcome # "Ok" THEN "Err" ELSE "Ok"

\* Mutant of Collect: the first failed download ends the phase (try_collect).
Collect_FailFast ==
    /\ rc = "running"
    /\ StreamDone \/ \E k \in 1..Len(results) : results[k].outcome # "Ok"
    /\ rc' = CollectResult(results)
    /\ UNCHANGED <<image_refs, download_n, dl, results, files>>
    /\ UNCHANGED <<cbVars, walkVars, enrichVars, runVars, fnVars>>

\* Lines 129-148: the collected stream ends; the block returns.
Collect ==
    /\ rc = "running"
    /\ StreamDone
    /\ rc' = CollectResult(results)
    /\ UNCHANGED <<image_refs, download_n, dl, results, files>>
    /\ UNCHANGED <<cbVars, walkVars, enrichVars, runVars, fnVars>>

-----------------------------------------------------------------------------
(* bin/magpie.rs: run, from login to the download phase *)

CsrfTokens == {"s1", "s2"}

\* What oneshot(&address).await delivers: the redirect's code and state, or
\* an error (the provider's error redirect among them).
CallbackOutcomes ==
    { OkResponse("c1", st) : st \in CsrfTokens }
        \cup { ErrResponse("access_denied", Absent, Absent) }

\* Before run is entered.
InitRun ==
    /\ run_pc = "start"
    /\ csrf = Absent
    /\ params = NoneVal
    /\ token_requests = 0
    /\ out_dir = "absent"
    /\ joined = {}

\* Lines 56-59: load_client, login_start and open::that. login_start returns
\* a fresh CSRF state; a missing configuration or a browser that cannot be
\* opened returns an error from run.
LoginStart ==
    /\ run_pc = "start"
    /\ \E ok \in BOOLEAN :
          IF ok
          THEN /\ \E st \in CsrfTokens : csrf' = st
               /\ run_pc' = "await_callback"
          ELSE /\ run_pc' = "failed"
               /\ UNCHANGED csrf
    /\ UNCHANGED <<params, token_requests, out_dir, joined>>
    /\ UNCHANGED <<cbVars, walkVars, enrichVars, dlVars, fnVars>>

\* Lines 62-64: the awaited callback; an error returns from run with the
\* context "Login error".
CallbackDelivered ==
    /\ run_pc = "await_callback"
    /\ \E outcome \in CallbackOutcomes :
          /\ params' = outcome
          /\ run_pc' = IF outcome.tag = "Ok" THEN "check_state" ELSE "failed"
    /\ UNCHANGED <<csrf, token_requests, out_dir, joined>>
    /\ UNCHANGED <<cbVars, walkVars, enrichVars, dlVars, fnVars>>

\* Mutant of StateMatches: the state is not compared.
StateMatches_Unchecked == TRUE

\* Line 65: state.secret() == params.state.secret().
StateMatches == csrf = params.state

\* Line 65: assert_eq! panics when the state of the redirect is not the one
\* login_start returned.
CheckState ==
    /\ run_pc = "check_state"
    /\ run_pc' = IF StateMatches THEN "login_end" ELSE "panicked"
    /\ UNCHANGED <<csrf, params, token_requests, out_dir, joined>>
    /\ UNCHANGED <<cbVars, walkVars, enrichVars, dlVars, fnVars>>

\* Line 66 and auth.rs line 47: login_end sends the token request with the
\* code, and run waits for its answer.
LoginEnd ==
    /\ run_pc = "login_end"
    /\ token_requests = 0
    /\ token_requests' = token_requests + 1
    /\ UNCHANGED <<run_pc, csrf, params, out_dir, joined>>
    /\ UNCHANGED <<cbVars, walkVars, enrichVars, dlVars, fnVars>>

\* Lines 66-70: the answer to the token request arrives; an error returns
\* from run, a token makes the Bot.
TokenResponse ==
    /\ run_pc = "login_end"
    /\ token_requests > 0
    /\ \E ok \in BOOLEAN : run_pc' = IF ok THEN "walk" ELSE "failed"
    /\ UNCHANGED <<csrf, params, token_requests, out_dir, joined>>
    /\ UNCHANGED <<cbVars, walkVars, enrichVars, dlVars, fnVars>>

\* Lines 75-90: try_collect polls fetch_liked_tweets until it ends or yields
\* an Err.
RunWalk ==
    /\ run_pc = "walk"
    /\ ~ErrYielded
    /\ PollUnintialised \/ UsersMeResponse \/ PollPage \/ PageResponse

\* Line 90: try_collect returns the first Err item, and `?` returns it from
\* run.
WalkFailed ==
    /\ run_pc = "walk"
    /\ ErrYielded
    /\ run_pc' = "failed"
    /\ UNCHANGED <<csrf, params, token_requests, out_dir, joined>>
    /\ UNCHANGED <<cbVars, walkVars, enrichVars, dlVars, fnVars>>

\* The page object of feed page p as process_page reads it: a page with data
\* carries one tweet with one Photo.
RunPage(p) ==
    IF feed[p].data
    THEN Page(TRUE, NextToken(p), TRUE, TRUE,
              [k \in MediaKeys |-> IF k = "k1" THEN "photo" ELSE "none"],
              << Tweet(1, "a1", "t1", Attached(<<"k1", "k2">>)) >>)
    ELSE Page(FALSE, NextToken(p), FALSE, FALSE, EmptyTable, << >>)

\* The tasks of the JoinSet: one per collected page.
Spawned == {t \in TaskIds : t <= Len(yielded)}

\* Lines 93-102: the stream ended without error; a process_page task is
\* spawned for every collected page.
SpawnTasks ==
    /\ run_pc = "walk"
    /\ stream_pc = "ended"
    /\ ~ErrYielded
    /\ pages' = [t \in TaskIds |->
                    IF t \in Spawned THEN RunPage(yielded[t].page) ELSE pages[t]]
    /\ task' = [t \in TaskIds |->
                    IF t \in Spawned THEN NewTask ELSE [NewTask EXCEPT !.pc = "unused"]]
    /\ run_pc' = "enrich"
    /\ UNCHANGED <<username_cache, lookups, guards>>
    /\ UNCHANGED <<csrf, params, token_requests, out_dir, joined>>
    /\ UNCHANGED <<cbVars, walkVars, dlVars, fnVars>>

\* The spawned tasks run process_page.
RunEnrich ==
    /\ run_pc = "enrich"
    /\ \E t \in Spawned :
          EmptyPage(t) \/ ReadCache(t) \/ SendLookup(t) \/ LookupResponse(t)

\* Line 109: image_refs.extend(page), each reference with the destination
\* path its download will write.
Extend(page) == [k \in 1..Len(page) |-> NewDownload(Path(page[k]))]

\* Mutant of JoinNext: the Err of a page is dropped and the loop goes on.
JoinNext_SkipFailed(t) ==
    /\ run_pc = "enrich"
    /\ t \in Spawned \ joined
    /\ task[t].pc \in {"done", "failed", "panicked"}
    /\ joined' = joined \cup {t}
    /\ image_refs' = image_refs + Len(task[t].image_refs)
    /\ dl' = dl \o Extend(task[t].image_refs)
    /\ UNCHANGED <<run_pc, csrf, params, token_requests, out_dir>>
    /\ UNCHANGED <<download_n, results, rc, files>>
    /\ UNCHANGED <<cbVars, walkVars, enrichVars, fnVars>>

\* Lines 105-114: join_next returns a finished task. A panicked task is a
\* JoinError ("failed to join future") and an Err page is "Failed to fetch
\* image metadata": both return from run. The references of an Ok page are
\* appended to image_refs.
JoinNext(t) ==
    /\ run_pc = "enrich"
    /\ t \in Spawned \ joined
    /\ task[t].pc \in {"done", "failed", "panicked"}
    /\ joined' = joined \cup {t}
    /\ IF task[t].pc = "done"
       THEN /\ image_refs' = image_refs + Len(task[t].image_refs)
            /\ dl' = dl \o Extend(task[t].image_refs)
            /\ UNCHANGED run_pc
       ELSE /\ run_pc' = "failed"
            /\ UNCHANGED <<image_refs, dl>>
    /\ UNCHANGED <<csrf, params, token_requests, out_dir>>
    /\ UNCHANGED <<download_n, results, rc, files>>
    /\ UNCHANGED <<cbVars, walkVars, enrichVars, fnVars>>

\* A task of the dropped JoinSet that waits at an await (the cache lock, the
\* answer to its get_user, or its first poll) is cancelled there.
Abort(t) ==
    /\ task[t].pc \in {"read", "lookup"}
    /\ task' = [task EXCEPT ![t].pc = "aborted"]
    /\ UNCHANGED <<pages, username_cache, lookups, guards>>
    /\ UNCHANGED <<cbVars, walkVars, dlVars, runVars, fnVars>>

\* A task of the dropped JoinSet that is past its cache read sends its
\* get_user (bot.rs lines 165-170) and is cancelled at that await.
SendAborted(t) ==
    /\ task[t].pc = "send"
    /\ LET a == pages[t].tweets[task[t].i].author_id
       IN  lookups' = [lookups EXCEPT ![t][a] = @ + 1]
    /\ task' = [task EXCEPT ![t].pc = "aborted"]
    /\ UNCHANGED <<pages, username_cache, guards>>
    /\ UNCHANGED <<cbVars, walkVars, dlVars, runVars, fnVars>>

\* Lines 105-108: `?` returned from run with tasks left in the JoinSet, which
\* is dropped. Dropping it aborts the tasks, and a task ends at its next
\* await: one that a worker thread is running goes on to there (the answer it
\* was woken for is handled, the cache read and written, a request sent),
\* one that waits is cancelled at once.
RunAborted ==
    /\ run_pc = "failed"
    /\ joined # {}
    /\ \E t \in Spawned \ joined :
          \/ EmptyPage(t)
          \/ ReadCache(t)
          \/ LookupResponse(t)
          \/ SendAborted(t)
          \/ Abort(t)

\* Mutant of DirOutcome: the result of create_dir_all is dropped.
DirOutcome_Ignored(created) == "download"

\* Lines 118-123: create_dir_all(...).with_context(...)? returns the error
\* from run.
DirOutcome(created) == IF created THEN "download" ELSE "failed"

\* Lines 117-127: every task is joined; the output directory is created, or
\* is there already with files of an earlier run, and the download stream is
\* built over image_refs.
CreateDir ==
    /\ run_pc = "enrich"
    /\ joined = Spawned
    /\ \E created \in BOOLEAN :
          /\ out_dir' = IF created THEN "created" ELSE "failed"
          /\ run_pc' = DirOutcome(created)
    /\ files' \in [Paths -> PriorFiles]
    /\ UNCHANGED <<csrf, params, token_requests, joined>>
    /\ UNCHANGED <<image_refs, download_n, dl, results, rc>>
    /\ UNCHANGED <<cbVars, walkVars, enrichVars, fnVars>>

\* Lines 128-148: the download block.
RunDownload ==
    /\ run_pc = "download"
    /\ \/ \E i \in RefIds : StartDownload(i)
       \/ \E i \in RefIds : CreateFile(i)
       \/ \E i \in RefIds : FetchResponse(i)
       \/ Collect

\* Lines 148-150: run returns the folded result of the downloads.
Return ==
    /\ run_pc = "download"
    /\ rc # "running"
    /\ run_pc' = IF rc = "Ok" THEN "done" ELSE "failed"
    /\ UNCHANGED <<csrf, params, token_requests, out_dir, joined>>
    /\ UNCHANGED <<cbVars, walkVars, enrichVars, dlVars, fnVars>>

-----------------------------------------------------------------------------
(* bot.rs: ImageRef::filename *)

\* Strings are sequences of characters.
DigitChars == <<"0", "1", "2", "3", "4", "5", "6", "7", "8", "9">>

\* Display of an unsigned integer: its decimal digits.
RECURSIVE Digits(_)
Digits(n) ==
    IF n < 10
    THEN << DigitChars[n + 1] >>
    ELSE Digits(n \div 10) \o << DigitChars[(n % 10) + 1] >>

\* created_at.format(&Iso8601::DEFAULT), for the instants of one minute: the
\* fields have a fixed width and the text has no space.
Iso8601(second) ==
    <<"T">> \o (IF second < 10 THEN <<"0">> ELSE << >>) \o Digits(second) \o <<"Z">>

\* Usernames: any text the user directory answers, spaces included.
Usernames ==
    UNION { [1..n -> {"a", "1", " "}] : n \in 0..MaxNameLen }

\* Tweet ids (NumericId, a u64).
TweetIds == {1, 2, 12, 21}

\* Internal filenames: the last path segment of a Url, in which a space is
\* percent-encoded.
InternalFilenames == { << >>, <<"a">>, <<"1">>, <<"2", "a">> }

\* The instants of created_at.
Instants == {0, 1, 12}

ImageRefs ==
    { [tweet |-> [created_at |-> c, username |-> u, id |-> i],
       internal_filename |-> f] :
        c \in Instants, u \in Usernames, i \in TweetIds, f \in InternalFilenames }

\* Mutant of filename: format!("{}{}{}{}", ..), without the separators.
filename_NoSeparator(r) ==
    Iso8601(r.tweet.created_at) \o r.tweet.username
        \o Digits(r.tweet.id) \o r.internal_filename

\* Lines 57-67: format!("{} {} {} {}", created_at, username, id,
\* internal_filename).
filename(r) ==
    Iso8601(r.tweet.created_at) \o <<" ">> \o r.tweet.username \o <<" ">>
        \o Digits(r.tweet.id) \o <<" ">> \o r.internal_filename

InitFilename ==
    /\ image_ref \in ImageRefs
    /\ file_name = << >>

\* Line 135: path.push(image_ref.filename()).
Filename ==
    /\ file_name = << >>
    /\ file_name' = filename(image_ref)
    /\ UNCHANGED image_ref
    /\ UNCHANGED <<cbVars, walkVars, enrichVars, dlVars, runVars>>

-----------------------------------------------------------------------------
(* Specifications *)

\* The components a specification leaves alone stay in these states.
IdleCallback == InitCallback

IdleWalk ==
    /\ feed = << >>
    /\ unfold_state = "Unintialised"
    /\ current_page = 0
    /\ stream_pc = "idle"
    /\ yielded = << >>
    /\ inflight = {}
    /\ netlog = << >>

IdleEnrich ==
    /\ pages = [t \in TaskIds |-> Page(TRUE, FALSE, TRUE, TRUE, EmptyTable, << >>)]
    /\ task = [t \in TaskIds |-> NewTask]
    /\ username_cache = [a \in Authors |-> NoName]
    /\ lookups = [t \in TaskIds |-> [a \in Authors |-> 0]]
    /\ guards = [t \in TaskIds |-> "none"]

IdleDownload ==
    /\ image_refs = 0
    /\ download_n = 1
    /\ dl = << >>
    /\ results = << >>
    /\ rc = "running"
    /\ files = << >>

IdleRun == InitRun

IdleFilename ==
    /\ image_ref = [tweet |-> [created_at |-> 0, username |-> << >>, id |-> 1],
                    internal_filename |-> << >>]
    /\ file_name = << >>

InitSpecCallback == InitCallback /\ IdleWalk /\ IdleEnrich /\ IdleDownload /\ IdleRun /\ IdleFilename

NextCallback ==
    \/ Bind
    \/ \E r \in RequestIds : Accept(r)
    \/ \E r \in RequestIds : RootOrHealth(r)
    \/ \E r \in RequestIds : ParseQuery(r)
    \/ \E r \in RequestIds : StoreAndSignal(r)
    \/ \E r \in RequestIds : Respond(r)
    \/ ObserveShutdown
    \/ ServeEnd
    \/ TakeResult

SpecCallback == InitSpecCallback /\ [][NextCallback]_vars

InitSpecWalk == IdleCallback /\ InitWalk /\ IdleEnrich /\ IdleDownload /\ IdleRun /\ IdleFilename

NextWalk ==
    \/ PollUnintialised
    \/ UsersMeResponse
    \/ PollPage
    \/ PageResponse
    \/ PollErrored

SpecWalk == InitSpecWalk /\ [][NextWalk]_vars

\* The consumer polls the stream until it ends, and every request sent is
\* answered (with a page or with an error).
FairSpecWalk == SpecWalk /\ WF_vars(NextWalk)

InitSpecEnrich == IdleCallback /\ IdleWalk /\ InitEnrich /\ IdleDownload /\ IdleRun /\ IdleFilename

NextEnrich ==
    \/ \E t \in TaskIds : EmptyPage(t)
    \/ \E t \in TaskIds : ReadCache(t)
    \/ \E t \in TaskIds : SendLookup(t)
    \/ \E t \in TaskIds : LookupResponse(t)

SpecEnrich == InitSpecEnrich /\ [][NextEnrich]_vars

InitSpecPage == IdleCallback /\ IdleWalk /\ InitPage /\ IdleDownload /\ IdleRun /\ IdleFilename

SpecPage == InitSpecPage /\ [][NextEnrich]_vars

InitSpecDownload == IdleCallback /\ IdleWalk /\ IdleEnrich /\ InitDownload /\ IdleRun /\ IdleFilename

NextDownload ==
    \/ \E i \in RefIds : StartDownload(i)
    \/ \E i \in RefIds : CreateFile(i)
    \/ \E i \in RefIds : FetchResponse(i)
    \/ Collect

SpecDownload == InitSpecDownload /\ [][NextDownload]_vars

InitSpecFile == IdleCallback /\ IdleWalk /\ IdleEnrich /\ InitFile /\ IdleRun /\ IdleFilename

SpecFile == InitSpecFile /\ [][NextDownload]_vars

\* The runtime polls every future that can make progress, and every GET is
\* answered (with a body or with an error).
FairSpecDownload == SpecDownload /\ WF_vars(NextDownload)

\* A run: the feed has at most one page per task, download_n is an
\* argument, and nothing has started.
InitSpecRun ==
    /\ IdleCallback
    /\ InitWalk
    /\ Len(feed) <= MaxTasks
    /\ IdleEnrich
    /\ image_refs = 0
    /\ download_n \in 1..MaxDownloadN
    /\ dl = << >>
    /\ results = << >>
    /\ rc = "running"
    /\ files = << >>
    /\ InitRun
    /\ IdleFilename

NextRun ==
    \/ LoginStart
    \/ CallbackDelivered
    \/ CheckState
    \/ LoginEnd
    \/ TokenResponse
    \/ RunWalk
    \/ WalkFailed
    \/ SpawnTasks
    \/ RunEnrich
    \/ \E t \in TaskIds : JoinNext(t)
    \/ RunAborted
    \/ CreateDir
    \/ RunDownload
    \/ Return

SpecRun == InitSpecRun /\ [][NextRun]_vars

\* The user answers the login, every request is answered, and the runtime
\* polls every task and future that can make progress.
FairSpecRun == SpecRun /\ WF_vars(NextRun)

InitSpecFilename ==
    IdleCallback /\ IdleWalk /\ IdleEnrich /\ IdleDownload /\ IdleRun /\ InitFilename

NextFilename == Filename

SpecFilename == InitSpecFilename /\ [][NextFilename]_vars

-----------------------------------------------------------------------------
(* Claims *)

CallbackRoute == "/oauth2/callback"

\* C1: in the download phase at most download_n downloads are in flight
\* (started and not yet finished) in every reachable state, and a queued
\* reference leaves the queue only in a state with fewer than download_n in
\* flight.
C1_BoundedInFlight ==
    /\ [](Cardinality(InFlight) <= download_n)
    /\ [][\A i \in RefIds :
            (dl[i].pc = "queued" /\ dl'[i].pc # "queued")
                => Cardinality(InFlight) < download_n]_vars

C1_Witness ==
    /\ image_refs > download_n
    /\ download_n = MaxDownloadN
    /\ Cardinality(InFlight) = download_n
    /\ \E i \in RefIds : dl[i].pc = "queued"
    /\ \E i \in RefIds : dl[i].pc = "finished"

FailedRefs == {i \in RefIds : dl[i].pc = "finished" /\ dl[i].outcome # "Ok"}

\* C2: every reference's download is started and runs to its own outcome
\* whatever the outcomes of the others: a step in which one download fails
\* changes no sibling, the phase eventually finishes, it finishes only with
\* every download finished and its outcome collected, and it returns Err
\* exactly when at least one download failed.
C2_AllAttempted ==
    /\ [](rc # "running" =>
            /\ \A i \in RefIds : dl[i].pc = "finished"
            /\ Len(results) = image_refs
            /\ (rc = "Err") <=> (FailedRefs # {}))
    /\ [][\A i \in RefIds :
            (i \notin FailedRefs /\ dl'[i].pc = "finished" /\ dl'[i].outcome # "Ok")
                => \A j \in RefIds \ {i} : dl'[j] = dl[j]]_vars
    /\ <>(rc # "running")

C2_Witness ==
    /\ rc = "Err"
    /\ Len(results) >= 2
    /\ results[1].outcome # "Ok"
    /\ results[Len(results)].outcome = "Ok"

\* C3: once the first callback request has recorded its outcome (the sender
\* is taken), no later request changes the stored outcome while
\* catch_callback is still serving, the shutdown signal is sent at most once,
\* and catch_callback returns what that first request stored.
C3_SingleOutcome ==
    /\ [][(~shutdown /\ cc = "serving")
            => code_grant_result' = code_grant_result]_vars
    /\ [](sends <= 1)
    /\ [](cc = "returned" => ret = first_stored)

\* C4: a callback request whose query is absent, empty or of neither shape
\* panics neither its handler nor catch_callback.
C4_MalformedNeverPanics ==
    /\ \A r \in RequestIds :
          (reqs[r].route = CallbackRoute /\ Malformed(reqs[r].query))
              => reqs[r].pc # "panicked"
    /\ cc # "expect_panic"

CallbackStored ==
    \E r \in RequestIds :
        reqs[r].route = CallbackRoute /\ reqs[r].pc \in {"stored", "responded"}

\* C5: catch_callback gets past the serve call only after a callback request
\* was handled and stored its outcome; once the shutdown signal is sent the
\* stored outcome is set, so that catch_callback finds it set; and while no
\* callback request has been handled catch_callback has not returned and the
\* bound server is still listening.
C5_BlocksUntilStored ==
    /\ cc \in {"joined", "returned", "expect_panic"} => CallbackStored
    /\ (~shutdown /\ cc \in {"serving", "joined"}) => code_grant_result # NoneVal
    /\ ~CallbackStored =>
          /\ cc \in {"start", "serving", "bind_panic"}
          /\ cc = "serving" => srv = "listening"

\* C6: the walker has at most one request outstanding: every request is
\* sent right after an answer was received (or is the very first), the first
\* liked-tweets request follows the successful answer of get_users_me, and
\* the request for page p + 1 follows the successful answer for page p.
C6_OneRequestOutstanding ==
    /\ Cardinality(inflight) <= 1
    /\ \A k \in 1..Len(netlog) :
          netlog[k].ev = "request" =>
            /\ k > 1 => netlog[k - 1].ev = "response"
            /\ netlog[k].what = UsersMe => k = 1
            /\ netlog[k].what # UsersMe =>
                  /\ k > 1
                  /\ netlog[k - 1] = Response(netlog[k].what - 1, "ok")

C6_Witness ==
    /\ \E k \in 1..Len(netlog) : netlog[k] = Request(3)
    /\ inflight = {3}

NoFetchFailure ==
    \A k \in 1..Len(netlog) : netlog[k].ev = "response" => netlog[k].status = "ok"

\* C7: the page stream eventually ends; when it ended without a failed
\* request it has yielded every page of the feed exactly once, in cursor
\* order, and without a failed request it never yields an error item. A
\* last page without data is yielded like any other.
C7_WalkYieldsEveryPage ==
    /\ []((stream_pc = "ended" /\ NoFetchFailure)
            => yielded = [p \in 1..Len(feed) |-> OkPage(p)])
    /\ [](NoFetchFailure => \A k \in 1..Len(yielded) : yielded[k].tag = "Ok")
    /\ <>(stream_pc = "ended")

C7_Witness ==
    /\ stream_pc = "ended"
    /\ NoFetchFailure
    /\ Len(feed) >= 2
    /\ ~feed[Len(feed)].data
    /\ Len(yielded) = Len(feed)


\* C8: a failed request makes the stream yield an error item, an error item
\* is the last item, and after it the walker is Errored for good, yields
\* nothing more, sends no request, and its next step is the end of the
\* stream.
C8_ErrorEndsWalk ==
    /\ [](~NoFetchFailure => ErrYielded)
    /\ [](\A k \in 1..Len(yielded) : yielded[k].tag = "Err" => k = Len(yielded))
    /\ [](ErrYielded => unfold_state = "Errored" /\ inflight = {})
    /\ [][ErrYielded =>
            /\ yielded' = yielded
            /\ netlog' = netlog
            /\ inflight' = inflight
            /\ unfold_state' = "Errored"
            /\ stream_pc' = "ended"]_walkVars

C8_Witness ==
    /\ ErrYielded
    /\ Len(yielded) >= 2
    /\ stream_pc = "ended"

\* The author whose name task t is resolving.
CurrentAuthor(t) == pages[t].tweets[task[t].i].author_id

\* C9: a resolution that reads the cache with the author's entry present
\* is served from the cache and sends no request; a get_user request is
\* sent only by a task that read the cache without an entry for that author
\* (so tasks that send for the same author each read before any entry was
\* inserted); and one process_page call sends at most one request per
\* author id.
C9_CacheHit ==
    /\ [][\A t \in TaskIds :
            (task[t].pc = "read" /\ task'[t].pc \in {"send", "lookup"})
                => username_cache[CurrentAuthor(t)] = NoName]_vars
    /\ [][\A t \in TaskIds, a \in Authors :
            lookups'[t][a] > lookups[t][a]
                => (task[t].pc = "send" /\ CurrentAuthor(t) = a)]_vars
    /\ [][\A t \in TaskIds :
            (task[t].pc = "read" /\ task[t].i <= Len(pages[t].tweets)
             /\ username_cache[CurrentAuthor(t)] # NoName)
                => (lookups'[t] = lookups[t] /\ task'[t].pc \in {"read", "done", "failed"})]_vars
    /\ [](\A t \in TaskIds, a \in Authors : lookups[t][a] <= 1)

C9_Witness ==
    \E t \in TaskIds, a \in Authors :
        /\ Len(pages[t].tweets) = 2
        /\ pages[t].tweets[1].author_id = a
        /\ pages[t].tweets[2].author_id = a
        /\ task[t].pc = "done"
        /\ lookups[t][a] = 1

\* C10 as stated: an entry of the username cache, once set, is never
\* removed and never changes, also when tasks that raced on the same miss
\* each insert the answer of their own lookup.
C10_CacheEntriesStable ==
    [][\A a \in Authors :
        username_cache[a] # NoName => username_cache'[a] = username_cache[a]]_vars

\* C10: an entry of the username cache, once set, is never removed; its
\* value is replaced only in the step in which a task that looked the same
\* id up inserts the answer of its own lookup, and then by that answer.
C10_EntriesKeptLastWriteWins ==
    [][\A a \in Authors :
        username_cache[a] # NoName =>
            /\ username_cache'[a] # NoName
            /\ username_cache'[a] # username_cache[a] =>
                  \E t \in TaskIds :
                      /\ task[t].pc = "lookup"
                      /\ CurrentAuthor(t) = a
                      /\ task'[t].pc # "lookup"
                      /\ task'[t].username = username_cache'[a]
                      /\ username_cache'[a] \in UserNames(a)]_vars

\* Two tasks raced on the miss of one author and were answered with
\* different usernames: each used its own answer, the cache holds the one
\* inserted last, and the entry of another author is still there.
C10_Witness ==
    \E a \in Authors, b \in Authors :
        /\ a # b
        /\ lookups[1][a] = 1
        /\ lookups[2][a] = 1
        /\ lookups[1][b] = 1
        /\ task[1].pc = "done"
        /\ task[2].pc = "done"
        /\ pages[1].tweets[Len(pages[1].tweets)].author_id = a
        /\ pages[2].tweets[Len(pages[2].tweets)].author_id = a
        /\ task[1].username # task[2].username
        /\ username_cache[a] = task[2].username
        /\ username_cache[b] \in UserNames(b)

\* The media keys a tweet attaches.
AttachedKeys(tweet) ==
    IF tweet.attachments.present /\ tweet.attachments.has_keys
    THEN tweet.attachments.media_keys
    ELSE << >>

\* A Photo entry of the side-table without url, or whose url has no path
\* segments.
PhotoLacksUrl(table, key) == table[key] \in {"photo_no_url", "photo_bad_url"}

\* A tweet that lacks its author id, its created-at, the media keys of its
\* attachments, or the url (or url path segments) of a Photo it attaches.
TweetLacksField(tweet, table) ==
    \/ tweet.author_id = Absent
    \/ tweet.created_at = Absent
    \/ (tweet.attachments.present /\ ~tweet.attachments.has_keys)
    \/ \E j \in 1..Len(AttachedKeys(tweet)) :
          PhotoLacksUrl(table, AttachedKeys(tweet)[j])

\* A page with data that lacks the included-media table or a field of one of
\* its tweets.
PageLacksField(page) ==
    /\ page.has_data
    /\ \/ ~page.has_includes
       \/ ~page.has_media
       \/ \E i \in 1..Len(page.tweets) : TweetLacksField(page.tweets[i], page.media)

\* A process_page call has returned.
Returned(t) == task[t].pc \in {"done", "failed"}

\* C11 as stated: a page with data that lacks a required field, the url of
\* any Photo media of the side-table included, makes process_page return an
\* error and no image reference.
C11_AnyPhotoWithoutUrlFails ==
    \A t \in TaskIds :
        (/\ Returned(t)
         /\ pages[t].has_data
         /\ \/ PageLacksField(pages[t])
            \/ \E k \in MediaKeys : PhotoLacksUrl(pages[t].media, k))
            => (task[t].pc = "failed" /\ task[t].image_refs = << >>)

\* C11: a page with data that lacks the included-media table, a tweet's
\* author id or created-at, the media keys of an attachment, or the url (or
\* the url path segments) of a Photo media that one of its tweets attaches,
\* and a page one of whose author lookups failed, makes process_page return
\* an error and no image reference, also for the tweets before the faulty
\* one; the call never moves past a faulty tweet.
C11_FaultyPageFails ==
    \A t \in TaskIds :
        /\ (Returned(t) /\ PageLacksField(pages[t]))
              => (task[t].pc = "failed" /\ task[t].image_refs = << >>)
        /\ task[t].pc = "failed" => task[t].image_refs = << >>
        /\ \A a \in Authors :
              (lookups[t][a] > 0 /\ task[t].pc # "lookup" /\ username_cache[a] = NoName)
                  => (task[t].pc = "failed" /\ task[t].image_refs = << >>)
        /\ (task[t].pc \in {"read", "send", "lookup", "done"} /\ pages[t].has_data
            /\ pages[t].has_includes /\ pages[t].has_media)
              => \A i \in 1..Len(pages[t].tweets) :
                    (i < task[t].i \/ (task[t].pc = "done" /\ i = task[t].i))
                        => ~TweetLacksField(pages[t].tweets[i], pages[t].media)

\* The first tweet attached a Photo that resolved, the second tweet lacks a
\* field, and the call returned an error without any reference.
C11_Witness ==
    /\ Len(pages[1].tweets) = 2
    /\ pages[1].media["k1"] = "photo"
    /\ pages[1].media["k2"] = "photo"
    /\ pages[1].tweets[1].attachments = Attached(<<"k1", "k2">>)
    /\ ~TweetLacksField(pages[1].tweets[1], pages[1].media)
    /\ pages[1].tweets[2].created_at = Absent
    /\ task[1].pc = "failed"
    /\ task[1].i = 2
    /\ task[1].image_refs = << >>

\* The (tweet, attachment) index pairs of a page from tweet i on, in tweet
\* order and then attachment order.
RECURSIVE PairsFrom(_, _)
PairsFrom(page, i) ==
    IF i > Len(page.tweets)
    THEN << >>
    ELSE [j \in 1..Len(AttachedKeys(page.tweets[i])) |-> <<i, j>>]
            \o PairsFrom(page, i + 1)

\* The pair's media key has an entry in the side-table and it is a Photo.
ResolvesToPhoto(page, pr) ==
    LET key == AttachedKeys(page.tweets[pr[1]])[pr[2]]
    IN  page.media[key] \notin {"none", "video"}

\* One image reference per pair that resolves to a Photo, with the username
\* the lookup of the tweet's author answered (the call is the only one
\* running, and the cache holds that answer).
ExpectedRefs(page) ==
    LET sel == SelectSeq(PairsFrom(page, 1), LAMBDA pr : ResolvesToPhoto(page, pr))
    IN  [n \in 1..Len(sel) |->
            LET tweet == page.tweets[sel[n][1]]
                key == AttachedKeys(tweet)[sel[n][2]]
            IN  [tweet |-> [created_at |-> tweet.created_at,
                            username |-> username_cache[tweet.author_id],
                            id |-> tweet.id],
                 internal_filename |-> key,
                 url |-> MediaUrl(key)]]

\* C12: for a page with data and every required field, process_page returns
\* one image reference per (tweet, attached media key) pair whose key
\* resolves in the side-table to a Photo, in tweet order and then attachment
\* order, and nothing else; a key without entry and a media that is not a
\* Photo are passed over without error.
C12_OneRefPerPhoto ==
    \A t \in TaskIds :
        /\ (task[t].pc = "done" /\ pages[t].has_data)
              => task[t].image_refs = ExpectedRefs(pages[t])
        /\ (task[t].pc = "failed" /\ ~PageLacksField(pages[t]))
              => task[t].error \in {"TwitterClient", "username in response"}

\* Both tweets attach a key that resolves to a Video before a key that
\* resolves to a Photo, and the call returned the two Photo references.
C12_Witness ==
    /\ pages[1].media["k1"] = "video"
    /\ pages[1].media["k2"] = "photo"
    /\ Len(pages[1].tweets) = 2
    /\ pages[1].tweets[1].attachments = Attached(<<"k1", "k2">>)
    /\ pages[1].tweets[2].attachments = Attached(<<"k1", "k2">>)
    /\ task[1].pc = "done"
    /\ Len(task[1].image_refs) = 2
    /\ task[1].image_refs[1].tweet.id = 1
    /\ task[1].image_refs[2].tweet.id = 2

\* C13: login_end requests a token at most once in a run, and only when the
\* callback delivered a success whose state is the CSRF state login_start
\* returned; after a delivered provider error or a success with another
\* state, run has ended and no token was requested.
C13_TokenExchangeGuarded ==
    /\ [](token_requests <= 1)
    /\ [][token_requests' # token_requests =>
            (params.tag = "Ok" /\ csrf # Absent /\ params.state = csrf)]_vars
    /\ []((params.tag = "Err" \/ (params.tag = "Ok" /\ params.state # csrf))
            => (token_requests = 0
                /\ run_pc \in {"check_state", "failed", "panicked"}))
    /\ [][(params.tag = "Err" \/ (params.tag = "Ok" /\ params.state # csrf))
            => (run_pc' \in {"failed", "panicked"}
                /\ token_requests' = token_requests)]_vars

\* The token was requested after a success with the right state, and the
\* run went on to the feed.
C13_Witness ==
    /\ token_requests = 1
    /\ params.tag = "Ok"
    /\ params.state = csrf
    /\ run_pc = "enrich"

\* A download has started: its future was taken from the stream (its file is
\* created and its GET sent from there on).
DownloadStarted == \E i \in DOMAIN dl : dl[i].pc # "queued"

\* C14: no download starts before create_dir_all has created the output
\* directory; when create_dir_all fails, run returns the error and no
\* download ever starts: no file is created, no GET is sent, no result is
\* collected.
C14_DirBeforeDownloads ==
    /\ []((DownloadStarted \/ results # << >>) => out_dir = "created")
    /\ [](out_dir = "failed" => run_pc = "failed")
    /\ [][out_dir = "failed" =>
            (dl' = dl /\ results' = results /\ run_pc' = run_pc)]_vars

\* Two references were waiting when the directory could not be created.
C14_Witness ==
    /\ out_dir = "failed"
    /\ image_refs = 2
    /\ run_pc = "failed"
    /\ ~DownloadStarted

\* C15: once every download has finished, the collected outcomes are in the
\* order of the references (outcome k is the result of reference k), or
\* every outcome names the reference it is the result of.
C15_OutcomesMatchRefs ==
    StreamDone =>
        \/ /\ Len(results) = image_refs
           /\ \A k \in 1..Len(results) : results[k].outcome = dl[k].outcome
        \/ \A k \in 1..Len(results) :
              /\ results[k].context \in RefIds
              /\ dl[results[k].context].outcome = results[k].outcome

\* The handler of request r has decoded its query.
Decoded(r) ==
    /\ reqs[r].route = CallbackRoute
    /\ reqs[r].pc \in {"parsed", "stored", "responded"}

\* The values the query has for the key.
Values(q, key) ==
    {q.pairs[k][2] : k \in {j \in 1..Len(q.pairs) : q.pairs[j][1] = key}}

\* The handler of request r has run its decoding, to a result or to a panic.
Handled(r) ==
    /\ reqs[r].route = CallbackRoute
    /\ reqs[r].pc \in {"parsed", "stored", "responded", "panicked"}

\* C16 as stated: the handler decodes a query containing both code and state
\* as the success with that code and state, also when error fields are
\* present; any other query containing an error field as the provider error
\* with that error, and with the description and uri of the query (absent
\* when the query has none); and a request whose decoding gave neither (a
\* handler that stopped at the decoding, or decoded nothing) had a query of
\* neither shape.
C16_DecodeOrder ==
    \A r \in RequestIds :
        LET q == reqs[r].query
            both == q.present /\ Count(q, "code") > 0 /\ Count(q, "state") > 0
            err == q.present /\ ~both /\ Count(q, "error") > 0
        IN  /\ (Handled(r) /\ both)
                  => /\ Decoded(r)
                     /\ reqs[r].parsed.tag = "Ok"
                     /\ reqs[r].parsed.code \in Values(q, "code")
                     /\ reqs[r].parsed.state \in Values(q, "state")
            /\ (Handled(r) /\ err)
                  => /\ Decoded(r)
                     /\ reqs[r].parsed.tag = "Err"
                     /\ reqs[r].parsed.error \in Values(q, "error")
                     /\ reqs[r].parsed.error_description
                            \in Values(q, "error_description") \cup {Absent}
                     /\ reqs[r].parsed.error_uri
                            \in Values(q, "error_uri") \cup {Absent}
            /\ (Handled(r) /\ (reqs[r].pc = "panicked" \/ reqs[r].parsed.tag = "None"))
                  => (~both /\ ~err)

\* C16: the handler decodes a query with code once and state once as the
\* success with that code and state, whatever other keys it has; any other
\* query with error once, and error_description and error_uri at most once,
\* as the provider error with that error, and with the description and uri
\* of the query (absent when the query has none), also when it has code or
\* state; and for every other query, and only for those, the decoding gives
\* neither (the handler stops at the decoding, or decodes nothing).
C16_DecodeOrderOfSingleKeys ==
    \A r \in RequestIds :
        LET q == reqs[r].query
            success == q.present /\ Count(q, "code") = 1 /\ Count(q, "state") = 1
            err == /\ q.present
                   /\ ~success
                   /\ Count(q, "error") = 1
                   /\ Count(q, "error_description") <= 1
                   /\ Count(q, "error_uri") <= 1
        IN  /\ (Handled(r) /\ success)
                  => /\ Decoded(r)
                     /\ reqs[r].parsed = OkResponse(Value(q, "code"), Value(q, "state"))
            /\ (Handled(r) /\ err)
                  => /\ Decoded(r)
                     /\ reqs[r].parsed =
                           ErrResponse(Value(q, "error"),
                                       Value(q, "error_description"),
                                       Value(q, "error_uri"))
            /\ (Handled(r) /\ ~success /\ ~err)
                  => (reqs[r].pc = "panicked" \/ reqs[r].parsed.tag = "None")

\* code=c1&state=s1&state=s2&error=access_denied was answered and
\* catch_callback returned the provider error access_denied without
\* description and uri, while another request, with
\* code=c1&state=s1&error=access_denied, was decoded as a success.
C16_Witness ==
    /\ reqs[1].query = Query(<< <<"code", "c1">>, <<"state", "s1">>,
                                <<"state", "s2">>, <<"error", "access_denied">> >>)
    /\ reqs[1].pc = "responded"
    /\ reqs[2].query = Query(<< <<"code", "c1">>, <<"state", "s1">>,
                                <<"error", "access_denied">> >>)
    /\ reqs[2].parsed = OkResponse("c1", "s1")
    /\ cc = "returned"
    /\ ret = ErrResponse("access_denied", Absent, Absent)

\* C17: once a callback request has recorded its outcome, no connection is
\* accepted any more, and the server is not stopped while a callback request
\* that recorded its outcome has not been sent its acknowledgment.
C17_NoAcceptAfterFulfilled ==
    /\ [][CallbackStored =>
            \A r \in RequestIds : reqs[r].pc = "idle" => reqs'[r].pc = "idle"]_vars
    /\ [](srv = "stopped" =>
            \A r \in RequestIds : reqs[r].pc # "stored")

\* C18: when 127.0.0.1:port cannot be bound, catch_callback does not panic
\* (it returns a setup error to its caller).
C18_BindFailureSurfaced == cc # "bind_panic"

\* The feed pages without data that advertise a next cursor, among the pages
\* the walk has collected.
CollectedEmptyWithCursor ==
    {k \in 1..Len(yielded) :
        /\ yielded[k].tag = "Ok"
        /\ ~feed[yielded[k].page].data
        /\ NextToken(yielded[k].page)}

\* C19: a collected page without data that advertises a next cursor does not
\* end the walk (the page after it is requested); its process_page task
\* never returns and contributes no image reference; the run never reaches
\* the download phase, and it ends in failure.
C19_EmptyPageWithCursorFails ==
    /\ [](\A k \in CollectedEmptyWithCursor :
            (stream_pc = "ended" /\ ~ErrYielded) => Len(yielded) > k)
    /\ [](\A k \in CollectedEmptyWithCursor :
            run_pc \notin {"start", "await_callback", "check_state", "login_end", "walk"}
                => (task[k].pc \in {"read", "panicked", "aborted"}
                    /\ task[k].image_refs = << >>))
    /\ [](CollectedEmptyWithCursor # {}
            => (/\ run_pc \notin {"download", "done"}
                /\ ~DownloadStarted
                /\ results = << >>
                /\ out_dir = "absent"))
    /\ (CollectedEmptyWithCursor # {}) ~> (run_pc = "failed")

\* The page after the empty one was enriched and joined with its reference,
\* then the join of the empty page's task ended the run.
C19_Witness ==
    /\ CollectedEmptyWithCursor = {1}
    /\ task[1].pc = "panicked"
    /\ joined = {1, 2}
    /\ image_refs = 1
    /\ run_pc = "failed"

\* C20: the filename of an image reference is the filename of no image
\* reference that differs from it in created-at, username, tweet id or
\* internal filename.
C20_FilenameInjective ==
    file_name # << >> =>
        \A r \in ImageRefs : r # image_ref => filename(r) # file_name

\* The filename of a reference whose username holds a space and a digit.
C20_Witness ==
    /\ image_ref = [tweet |-> [created_at |-> 1, username |-> <<" ", "1">>, id |-> 12],
                    internal_filename |-> <<"2", "a">>]
    /\ file_name = <<"T", "0", "1", "Z", " ", " ", "1", " ", "1", "2", " ", "2", "a">>

\* C21: a task whose get_user lookup is in flight holds no guard of the
\* username cache, and while it is in flight the read and the write lock can
\* be taken by any other task.
C21_NoGuardAcrossLookup ==
    \A t \in TaskIds :
        task[t].pc \in {"send", "lookup"} =>
            /\ guards[t] = "none"
            /\ \A u \in TaskIds \ {t} : CanRead(u) /\ CanWrite(u)

\* Two tasks missed on the same author; one got its answer and inserted it
\* while the lookup of the other was still in flight.
C21_Witness ==
    \E t \in TaskIds, u \in TaskIds, a \in Authors :
        /\ t # u
        /\ task[t].pc = "lookup"
        /\ pages[t].tweets[task[t].i].author_id = a
        /\ lookups[u][a] = 1
        /\ task[u].pc = "done"
        /\ username_cache[a] \in UserNames(a)

\* The handler of callback request r has ended, with a page or with a panic.
CallbackEnded(r) ==
    reqs[r].route = CallbackRoute /\ reqs[r].pc \in {"responded", "panicked"}

InSeq(x, seq) == \E i \in 1..Len(seq) : seq[i] = x

\* C22: the page of a callback request has the title "You are now logged in."
\* exactly when the request's outcome is a success; for a provider error and
\* for an absent or undecodable query the title is "Login failed.", and the
\* subheader of a provider error holds its error code.
C22_PageReportsOutcome ==
    \A r \in RequestIds :
        CallbackEnded(r) =>
            LET q == reqs[r].query
                outcome == IF q.present THEN CodeGrantResultCustom(q) ELSE NoneVal
            IN  /\ reqs[r].html.title = "You are now logged in."
                      <=> outcome.tag = "Ok"
                /\ outcome.tag # "Ok" => reqs[r].html.title = "Login failed."
                /\ outcome.tag = "Err" => InSeq(outcome.error, reqs[r].html.subheader)

\* C22, for the requests that are answered: the same, for every callback
\* request that was sent a page.
C22_AnsweredPageReportsOutcome ==
    \A r \in RequestIds :
        (reqs[r].route = CallbackRoute /\ reqs[r].pc = "responded") =>
            /\ reqs[r].html.title = "You are now logged in."
                  <=> reqs[r].parsed.tag = "Ok"
            /\ reqs[r].parsed.tag # "Ok" => reqs[r].html.title = "Login failed."
            /\ reqs[r].parsed.tag = "Err"
                  => InSeq(reqs[r].parsed.error, reqs[r].html.subheader)

FileSteps == <<"create", "fetch", "write">>

IsPrefix(s, t) == Len(s) <= Len(t) /\ \A k \in 1..Len(s) : s[k] = t[k]

\* download::file runs create, fetch, write in this order, each at most
\* once, and returns at the first step that fails: a failed create is a
\* local-file error with no request made, a failed fetch is a remote error
\* whose collected result is an error, a failed write is a local-file
\* error, and Ok is returned only after all three steps; a finished download
\* is not run again, and a failed create leaves every file as it was.
StepsInOrder ==
    /\ [](\A i \in RefIds :
            /\ IsPrefix(dl[i].steps, FileSteps)
            /\ dl[i].pc = "finished" =>
                 /\ dl[i].steps = <<"create">> => dl[i].outcome = "Err(File)"
                 /\ dl[i].steps = <<"create", "fetch">>
                       => dl[i].outcome = "Err(Remote)"
                 /\ dl[i].steps = FileSteps
                       => dl[i].outcome \in {"Ok", "Err(File)"}
                 /\ dl[i].outcome = "Ok" => dl[i].steps = FileSteps
                 /\ dl[i].outcome = "Err(Remote)" =>
                       /\ \E k \in 1..Len(results) :
                             results[k] = [outcome |-> "Err(Remote)", context |-> i]
                       /\ rc # "Ok")
    /\ [][\A i \in RefIds : dl[i].pc = "finished" => dl'[i] = dl[i]]_vars
    /\ [][\A i \in RefIds :
            (dl[i].pc = "started" /\ dl'[i].pc = "finished") => files' = files]_vars

\* C23: download::file runs create, fetch, write in this order and stops at
\* the first failing step, with a local-file error for create and write and
\* a remote error for the fetch; no request is made for a reference whose
\* file cannot be created; and a download whose fetch fails returns with its
\* destination file existing and empty, and is collected as an error.
C23_StepsInOrder ==
    /\ StepsInOrder
    /\ [][\A i \in RefIds :
            (dl[i].pc = "fetching" /\ dl'[i].pc = "finished"
             /\ dl'[i].outcome = "Err(Remote)")
                => files'[dl[i].path] = "empty"]_vars

\* The walk ended with every page collected.
WalkSucceeded == stream_pc = "ended" /\ ~ErrYielded

\* A page fetch failed, or the process_page task of a collected page
\* returned an error or panicked.
PhaseFailure ==
    \/ ErrYielded
    \/ \E t \in TaskIds : task[t].pc \in {"failed", "panicked"}

\* C24: a process_page task is spawned or takes a step only after the walk
\* has ended with every page collected, and no feed request is made from
\* then on; the output directory is created and a download starts only after
\* every spawned task has returned Ok and was joined; once a page fetch or a
\* page's enrichment has failed, no directory is created and no download
\* starts, and the run ends with an error.
C24_PhaseBarriers ==
    /\ [][(task' # task \/ lookups' # lookups \/ username_cache' # username_cache)
            => (WalkSucceeded /\ UNCHANGED walkVars)]_vars
    /\ []((out_dir # "absent" \/ DownloadStarted \/ results # << >>) =>
            /\ WalkSucceeded
            /\ joined = Spawned
            /\ Spawned = 1..Len(yielded)
            /\ \A t \in Spawned : task[t].pc = "done")
    /\ [](PhaseFailure =>
            /\ out_dir = "absent"
            /\ ~DownloadStarted
            /\ results = << >>
            /\ run_pc \notin {"download", "done"})
    /\ PhaseFailure ~> (run_pc = "failed")

\* The first page was enriched and joined with its image reference; the
\* author lookup of the second page failed, and its join ended the run with
\* no directory created and no download started.
C24_Witness ==
    /\ task[1].pc = "done" /\ Len(task[1].image_refs) = 1
    /\ task[2].pc = "failed"
    /\ joined = {1, 2}
    /\ image_refs = 1
    /\ run_pc = "failed"
    /\ out_dir = "absent"
    /\ ~DownloadStarted

====
